---- MODULE Spec2Model ----
(***************************************************************************)
(* Model of the HTTP proxy front-end of go-shadowsocks2 (src/http.go):     *)
(* the header sanitizer (copyHeaders, processConnectionHdr), the plain     *)
(* request forwarder (processRequest), the CONNECT tunnel handler          *)
(* (handleConnect) and the relay's copy tasks (transfer).                  *)
(*                                                                         *)
(* Strings whose characters matter (header names, Connection values, host  *)
(* names) are sequences of one-character strings; "BEL" stands for the     *)
(* control byte 0x07 and "BQUOTE" for the backquote 0x60.                  *)
(***************************************************************************)
EXTENDS Integers, Sequences, FiniteSets, TLC

(***************************************************************************)
(* Bounds                                                                  *)
(***************************************************************************)
\* number of header lines the HTTP layer delivers in one header block
MaxHdrs == 3
\* bytes each peer of a tunnel sends; the n-th byte a peer sends is n
MaxBytes == 2

(***************************************************************************)
(* Characters                                                              *)
(***************************************************************************)
Lower == <<"a","b","c","d","e","f","g","h","i","j","k","l","m",
           "n","o","p","q","r","s","t","u","v","w","x","y","z">>
Upper == <<"A","B","C","D","E","F","G","H","I","J","K","L","M",
           "N","O","P","Q","R","S","T","U","V","W","X","Y","Z">>
Digits == {"0","1","2","3","4","5","6","7","8","9"}
LowerSet == {Lower[i] : i \in 1..26}
UpperSet == {Upper[i] : i \in 1..26}

IndexIn(c, s) == CHOOSE i \in 1..Len(s) : s[i] = c
ToUpper(c) == IF c \in LowerSet THEN Upper[IndexIn(c, Lower)] ELSE c
ToLower(c) == IF c \in UpperSet THEN Lower[IndexIn(c, Upper)] ELSE c

\* the characters strings.TrimSpace removes (ASCII part of White_Space)
SpaceChars == {" ", "\t", "\n", "\r", "\f"}

\* the character class of tokenPatternRegex: \d, \w and the listed marks
TokenChars ==
  Digits \cup LowerSet \cup UpperSet \cup
  {"_", "!", "#", "$", "%", "&", "'", "*", "+", "-", ".", "^", "|", "~", "BQUOTE"}

\* tokenPattern.MatchString: ^[class]+$ , one or more characters of the class
tokenPatternMatch(header) ==
  /\ Len(header) >= 1
  /\ \A i \in 1..Len(header) : header[i] \in TokenChars

\* strings.TrimSpace
RECURSIVE TrimLeft(_)
TrimLeft(s) ==
  IF s # <<>> /\ Head(s) \in SpaceChars THEN TrimLeft(Tail(s)) ELSE s
RECURSIVE TrimRight(_)
TrimRight(s) ==
  IF s # <<>> /\ s[Len(s)] \in SpaceChars
  THEN TrimRight(SubSeq(s, 1, Len(s) - 1)) ELSE s
TrimSpace(s) == TrimRight(TrimLeft(s))

\* strings.Split(value, ","): the parts between the commas, empty parts kept
RECURSIVE SplitFrom(_, _, _)
SplitFrom(s, i, cur) ==
  IF i > Len(s) THEN <<cur>>
  ELSE IF s[i] = "," THEN <<cur>> \o SplitFrom(s, i + 1, <<>>)
  ELSE SplitFrom(s, i + 1, Append(cur, s[i]))
SplitComma(value) == SplitFrom(value, 1, <<>>)

(***************************************************************************)
(* http.Header: a map from header name to the list of its values.  Add     *)
(* canonicalizes the name (first letter and every letter after a hyphen    *)
(* in upper case, the others in lower case; a name holding a byte that is  *)
(* no token character is left as it is).                                   *)
(***************************************************************************)
CanonicalMIMEHeaderKey(s) ==
  IF \E i \in 1..Len(s) : s[i] \notin TokenChars THEN s
  ELSE [i \in 1..Len(s) |->
          IF i = 1 \/ s[i - 1] = "-" THEN ToUpper(s[i]) ELSE ToLower(s[i])]

EmptyHeader == <<>>

\* http.Header.Set: the value replaces the values held under the name
HeaderSet(h, k, v) ==
  LET ck == CanonicalMIMEHeaderKey(k) IN
  [kk \in (DOMAIN h) \cup {ck} |-> IF kk = ck THEN <<v>> ELSE h[kk]]

HeaderAdd(h, k, v) ==
  LET ck == CanonicalMIMEHeaderKey(k) IN
  IF ck \in DOMAIN h THEN [h EXCEPT ![ck] = Append(@, v)]
  ELSE h @@ (ck :> <<v>>)

\* the HTTP layer's header reader: the name is canonicalized and the value
\* appended to the values read so far under it
ReadMIMEHeaderLine(h, k, v) ==
  LET ck == CanonicalMIMEHeaderKey(k) IN
  IF ck \in DOMAIN h THEN [h EXCEPT ![ck] = Append(@, v)]
  ELSE h @@ (ck :> <<v>>)

HeaderGet(h, k) == IF k \in DOMAIN h THEN h[k] ELSE <<>>

(***************************************************************************)
(* Header sanitizer                                                        *)
(***************************************************************************)
connectionHeader == <<"C","o","n","n","e","c","t","i","o","n">>

hopByHopHeaders ==
  { connectionHeader,
    <<"K","e","e","p","-","A","l","i","v","e">>,
    <<"P","r","o","x","y","-","A","u","t","h","o","r","i","z","a","t","i","o","n">>,
    <<"P","r","o","x","y","-","A","u","t","h","e","n","t","i","c","a","t","i","o","n">>,
    <<"T","E">>,
    <<"T","r","a","i","l","e","r">>,
    <<"T","r","a","n","s","f","e","r","-","E","n","c","o","d","i","n","g">>,
    <<"U","p","g","r","a","d","e">> }

\* the loop of processConnectionHdr over parts[i..]: the drop set and the
\* list of bad tokens after it
RECURSIVE ConnParts(_, _, _, _)
ConnParts(parts, i, dropHdrs, bad) ==
  IF i > Len(parts) THEN [drop |-> dropHdrs, bad |-> bad]
  ELSE LET header == TrimSpace(parts[i]) IN
       IF tokenPatternMatch(header)
       THEN ConnParts(parts, i + 1, dropHdrs \cup {header}, bad)
       ELSE ConnParts(parts, i + 1, dropHdrs, Append(bad, header))

\* a loop that gives up at the first bad token
RECURSIVE ConnPartsStopAtBad(_, _, _, _)
ConnPartsStopAtBad(parts, i, dropHdrs, bad) ==
  IF i > Len(parts) THEN [drop |-> dropHdrs, bad |-> bad]
  ELSE LET header == TrimSpace(parts[i]) IN
       IF tokenPatternMatch(header)
       THEN ConnPartsStopAtBad(parts, i + 1, dropHdrs \cup {header}, bad)
       ELSE [drop |-> dropHdrs, bad |-> Append(bad, header)]

processConnectionHdrStopAtBad(dropHdrs, value) ==
  ConnPartsStopAtBad(SplitComma(value), 1, dropHdrs, <<>>)

processConnectionHdr(dropHdrs, value) ==
  ConnParts(SplitComma(value), 1, dropHdrs, <<>>)

\* the first loop of copyHeaders: every value of src[connectionHeader] is
\* processed into one drop set; the bad tokens of each call are discarded by
\* the code and kept here, concatenated, for inspection
RECURSIVE ConnVals(_, _, _, _)
ConnVals(vals, i, dropHdrs, bad) ==
  IF i > Len(vals) THEN [drop |-> dropHdrs, bad |-> bad]
  ELSE LET r == processConnectionHdr(dropHdrs, vals[i]) IN
       ConnVals(vals, i + 1, r.drop, bad \o r.bad)

dynDropOf(src) ==
  IF connectionHeader \in DOMAIN src
  THEN ConnVals(src[connectionHeader], 1, {}, <<>>)
  ELSE [drop |-> {}, bad |-> <<>>]

\* dst.Add(k, v) for every v of vals, in order
RECURSIVE AddAll(_, _, _, _)
AddAll(dst, k, vals, i) ==
  IF i > Len(vals) THEN dst
  ELSE AddAll(HeaderAdd(dst, k, vals[i]), k, vals, i + 1)

\* the second loop of copyHeaders, the keys of src visited in some order
RECURSIVE CopyLoop(_, _, _, _, _)
CopyLoop(dst, src, order, i, dynDropHdrs) ==
  IF i > Len(order) THEN dst
  ELSE LET k == order[i] IN
       IF k \in hopByHopHeaders
       THEN CopyLoop(dst, src, order, i + 1, dynDropHdrs)
       ELSE IF k \in dynDropHdrs
       THEN CopyLoop(dst, src, order, i + 1, dynDropHdrs)
       ELSE CopyLoop(AddAll(dst, k, src[k], 1), src, order, i + 1, dynDropHdrs)

\* the orders in which a range over a map with key set S may visit the keys
Orders(S) ==
  {o \in [1..Cardinality(S) -> S] : \A i, j \in DOMAIN o : i # j => o[i] # o[j]}

copyHeaders(dst, src, order) ==
  CopyLoop(dst, src, order, 1, dynDropOf(src).drop)

(***************************************************************************)
(* Header sanitizer as a state machine: the HTTP layer delivers a header   *)
(* block line by line (names in any letter case on the wire, canonicalized *)
(* into the map), then copyHeaders is applied to it, from processRequest   *)
(* for the client request and for the upstream response.                   *)
(***************************************************************************)
VARIABLES
  hpc,          \* "recv": header block being received, "copied": after copyHeaders
  nhdr,         \* header lines received
  src,          \* the source header collection
  dst0,         \* the destination as it was when copyHeaders was called
  dst,          \* the destination header collection
  dynDropHdrs,  \* dynDropHdrs of the call
  badTokens,    \* the bad tokens the calls of processConnectionHdr returned
  prevDrop      \* dynDropHdrs of the call before this one

hvars == <<hpc, nhdr, src, dst0, dst, dynDropHdrs, badTokens, prevDrop>>

VARIABLES
  pc,           \* position of the handler
  method,       \* req.Method
  reqHost,      \* req.Host (plain path), req.URL.Host (tunnel path)
  reqHeader,    \* req.Header
  UserAgent,    \* h.UserAgent
  err,          \* the local variable err
  retErr,       \* "none" until the handler returns, then the error returned
  failed,       \* the steps that failed, in the order in which they failed
  deferred,     \* the deferred calls registered so far, in order
  dials,        \* calls of net.Dial
  rc,           \* the upstream connection: "none", "open", "closed"
  rcCloses,     \* calls of rc.Close
  upLog,        \* the writes made on rc, in order
  respLog,      \* the calls made on the response object, in order
  respHeader,   \* resp.Header()
  proxyReqHeader, \* proxyReq.Header
  proxyResp,    \* the upstream response read: status code and header
  bodyCloses,   \* closes of req.Body and of proxyResp.Body
  hijacked,     \* the client connection has been hijacked
  clientConn,   \* the raw client connection: "none", "open", "closed"
  ccCloses,     \* closes of the raw client connection
  cliLog,       \* the writes made on the raw client connection, in order
  clientInput,  \* bytes the HTTP layer had buffered, not yet read by the relay
  wg,           \* the WaitGroup counter
  t1,           \* transfer(&wg, rc, clientInput): "none", "run", "done"
  t2,           \* transfer(&wg, clientConn, rc): "none", "run", "done"
  cliQ,         \* bytes sent by the client, not yet read from its socket
  cliSent,      \* number of bytes the client has sent after the CONNECT head
  cliPeer,      \* the client's end: "open", "closed" (end of stream), "reset"
  upQ,          \* bytes sent by the upstream, not yet read from rc
  upSent,       \* number of bytes the upstream has sent
  upPeer        \* the upstream's end: "open", "closed", "reset"

reqVars  == <<method, reqHost, reqHeader, UserAgent>>
ctlVars  == <<pc, err, retErr, failed, deferred>>
upVars   == <<dials, rc, rcCloses, upLog>>
respVars == <<respLog, respHeader, proxyReqHeader, proxyResp, bodyCloses>>
cliVars  == <<hijacked, clientConn, ccCloses, cliLog, clientInput>>
taskVars == <<wg, t1, t2>>
envVars  == <<cliQ, cliSent, cliPeer, upQ, upSent, upPeer>>
svars == <<reqVars, ctlVars, upVars, respVars, cliVars, taskVars, envVars>>

vars == <<hvars, svars>>

V1 == <<"1">>
V2 == <<"2">>
XA == <<"X","-","A">>

\* values a Connection header arrives with
ConnectionValues ==
  { <<"c","l","o","s","e">>,
    <<"X","-","A">>,
    <<"x","-","a">>,
    <<"X","-","A",","," ","X","-","B">>,
    <<"X"," ","b",",","X","-","A">>,
    <<","," ","X","BEL"," ",",","X","-","B">> }

\* header lines as they arrive on the wire
WireHeaderLines ==
  ({<<"c","o","n","n","e","c","t","i","o","n">>} \X ConnectionValues)
  \cup
  ({ <<"k","e","e","p","-","a","l","i","v","e">>,
     <<"P","r","o","x","y","-","A","u","t","h","o","r","i","z","a","t","i","o","n">>,
     <<"p","r","o","x","y","-","a","u","t","h","e","n","t","i","c","a","t","i","o","n">>,
     <<"T","E">>,
     <<"t","r","a","i","l","e","r">>,
     <<"T","r","a","n","s","f","e","r","-","E","n","c","o","d","i","n","g">>,
     <<"u","p","g","r","a","d","e">>,
     <<"X","-","B">> } \X {V1})
  \cup
  ({<<"x","-","a">>} \X {V1, V2})

\* what a destination may hold before the call
DstInputs == { EmptyHeader, (XA :> <<<<"0">>>>) }

HdrInit ==
  /\ hpc = "recv"
  /\ nhdr = 0
  /\ src = EmptyHeader
  /\ dst0 = EmptyHeader
  /\ dst = EmptyHeader
  /\ dynDropHdrs = {}
  /\ badTokens = <<>>
  /\ prevDrop = {}

\* the HTTP layer reads one header line into the map
ReceiveHeaderLine ==
  /\ hpc = "recv"
  /\ nhdr < MaxHdrs
  /\ \E line \in WireHeaderLines :
       src' = ReadMIMEHeaderLine(src, line[1], line[2])
  /\ nhdr' = nhdr + 1
  /\ UNCHANGED <<hpc, dst0, dst, dynDropHdrs, badTokens, prevDrop>>
  /\ UNCHANGED svars

\* a copyHeaders whose drop set is a map shared by all calls, never cleared
CopyHeadersIntoSharedDrop(d0) ==
  /\ hpc = "recv"
  /\ hpc' = "copied"
  /\ dst0' = d0
  /\ \E order \in Orders(DOMAIN src) :
       dst' = CopyLoop(d0, src, order, 1, dynDropHdrs \cup dynDropOf(src).drop)
  /\ dynDropHdrs' = dynDropHdrs \cup dynDropOf(src).drop
  /\ badTokens' = dynDropOf(src).bad
  /\ UNCHANGED <<nhdr, src, prevDrop>>
  /\ UNCHANGED svars

\* one call copyHeaders(dst, src) with dst holding d0: the drop set is a new
\* map, filled from the Connection values of src, then the copy loop
CopyHeadersInto(d0) ==
  /\ hpc = "recv"
  /\ hpc' = "copied"
  /\ dst0' = d0
  /\ \E order \in Orders(DOMAIN src) : dst' = copyHeaders(d0, src, order)
  /\ dynDropHdrs' = dynDropOf(src).drop
  /\ badTokens' = dynDropOf(src).bad
  /\ UNCHANGED <<nhdr, src, prevDrop>>
  /\ UNCHANGED svars

\* copyHeaders(proxyReq.Header, req.Header)
CopyHeadersRequest == CopyHeadersInto(EmptyHeader)

\* copyHeaders(resp.Header(), proxyResp.Header)
CopyHeadersResponse == \E d0 \in DstInputs : CopyHeadersInto(d0)

\* the call has returned and another header block is about to be sanitized;
\* the local drop set of the finished call is remembered as prevDrop
NextCall ==
  /\ hpc = "copied"
  /\ hpc' = "recv"
  /\ nhdr' = 0
  /\ src' = EmptyHeader
  /\ dst0' = EmptyHeader
  /\ dst' = EmptyHeader
  /\ badTokens' = <<>>
  /\ prevDrop' = dynDropHdrs
  /\ UNCHANGED dynDropHdrs
  /\ UNCHANGED svars

(***************************************************************************)
(* The handler: ServeHTTP, processRequest, handleConnect, transfer         *)
(***************************************************************************)
StatusInternalServerError == 500

\* the bytes of the CONNECT acknowledgment
AckBytes == "HTTP/1.0 200 Connection established\r\n\r\n"

UserAgentHeader == <<"U","s","e","r","-","A","g","e","n","t">>

\* request hosts: a name without a port, a name with a port, an IPv6 literal
\* without a port
HostInputs == { <<"h">>, <<"h", ":", "8">>, <<"[", ":", ":", "1", "]">> }

\* header collections of client requests and of upstream responses
HeaderInputs ==
  { EmptyHeader,
    (connectionHeader :> <<<<"c","l","o","s","e">>>>) @@ (XA :> <<V1>>),
    (UserAgentHeader :> <<<<"c","u","r","l">>>>) }

UserAgentInputs == { <<>>, <<"u","a">> }

StatusInputs == { 200, 404 }

\* strings.Contains(s, ":")
ContainsColon(s) == \E i \in 1..Len(s) : s[i] = ":"

\* targetHost of processRequest
targetHostOf(host) ==
  IF ~ContainsColon(host) THEN host \o <<":", "8", "0">> ELSE host

\* socks.ParseAddr: the destination token of a host:port string
ParseAddr(hostport) == <<"tgt", hostport>>

\* one write on a connection: what was written and whether the write succeeded
WriteRec(kind, data, ok) == [k |-> kind, d |-> data, ok |-> ok]

\* one call on the response object; a call made after the hijack does not
\* reach the client
RespCall(op, code) == [op |-> op, code |-> code, hijacked |-> hijacked]

\* resp.WriteHeader(code)
WriteHeader(code) == respLog' = Append(respLog, RespCall("WriteHeader", code))

\* return e: the handler leaves its body, the deferred calls are still to run
Return(e) == /\ retErr' = e
             /\ pc' = "return"

SpecInit ==
  /\ pc = "idle"
  /\ method = "none"
  /\ reqHost = <<>>
  /\ reqHeader = EmptyHeader
  /\ UserAgent \in UserAgentInputs
  /\ err = "nil"
  /\ retErr = "none"
  /\ failed = <<>>
  /\ deferred = <<>>
  /\ dials = 0
  /\ rc = "none"
  /\ rcCloses = 0
  /\ upLog = <<>>
  /\ respLog = <<>>
  /\ respHeader = EmptyHeader
  /\ proxyReqHeader = EmptyHeader
  /\ proxyResp = [StatusCode |-> 0, Header |-> EmptyHeader]
  /\ bodyCloses = [req |-> 0, resp |-> 0]
  /\ hijacked = FALSE
  /\ clientConn = "none"
  /\ ccCloses = 0
  /\ cliLog = <<>>
  /\ clientInput = <<>>
  /\ wg = 0
  /\ t1 = "none"
  /\ t2 = "none"
  /\ cliQ = <<>>
  /\ cliSent = 0
  /\ cliPeer = "open"
  /\ upQ = <<>>
  /\ upSent = 0
  /\ upPeer = "open"

\* ServeHTTP: a request arrives and is dispatched on its method
ServeHTTP ==
  /\ pc = "idle"
  /\ \E m \in {"GET", "CONNECT"} :
       /\ method' = m
       /\ pc' = IF m = "CONNECT" THEN "c_getConn" ELSE "p_readBody"
       /\ reqHeader' \in (IF m = "CONNECT" THEN {EmptyHeader} ELSE HeaderInputs)
  /\ reqHost' \in HostInputs
  /\ UNCHANGED <<UserAgent, err, retErr, failed, deferred>>
  /\ UNCHANGED <<upVars, respVars, cliVars, taskVars, envVars>>
  /\ UNCHANGED hvars

\* a connector that dials a second time when the first dial fails
getConnRetrying(ok) ==
  /\ dials' = dials + (IF ok THEN 1 ELSE 2)
  /\ rc' = IF ok THEN "open" ELSE rc
  /\ UNCHANGED rcCloses

\* getConn: one net.Dial, wrapped by the transform when it succeeded
getConn(ok) ==
  /\ dials' = dials + 1
  /\ rc' = IF ok THEN "open" ELSE rc
  /\ UNCHANGED rcCloses

(***************************************************************************)
(* processRequest                                                          *)
(***************************************************************************)
\* body, err := ioutil.ReadAll(req.Body); defer req.Body.Close()
P_ReadBody ==
  /\ pc = "p_readBody"
  /\ \E ok \in BOOLEAN :
       /\ err' = IF ok THEN "nil" ELSE "readBody"
       /\ failed' = IF ok THEN failed ELSE Append(failed, "readBody")
  /\ deferred' = Append(deferred, "req.Body")
  /\ pc' = "p_getConn"
  /\ UNCHANGED <<retErr, reqVars, upVars, respVars, cliVars, taskVars, envVars>>
  /\ UNCHANGED hvars

\* a dial that registers no close of the upstream connection
P_GetConnWithoutDefer ==
  /\ pc = "p_getConn"
  /\ \E ok \in BOOLEAN :
       /\ getConn(ok)
       /\ IF ok
          THEN /\ err' = "nil"
               /\ UNCHANGED deferred
               /\ pc' = "p_token"
               /\ UNCHANGED <<retErr, failed, respLog>>
          ELSE /\ err' = "dial"
               /\ failed' = Append(failed, "dial")
               /\ WriteHeader(StatusInternalServerError)
               /\ Return("dial")
               /\ UNCHANGED deferred
  /\ UNCHANGED <<upLog, respHeader, proxyReqHeader, proxyResp, bodyCloses>>
  /\ UNCHANGED <<reqVars, cliVars, taskVars, envVars>>
  /\ UNCHANGED hvars

\* rc, err := h.getConn(); on failure WriteHeader(500) and return err;
\* defer rc.Close()
P_GetConn ==
  /\ pc = "p_getConn"
  /\ \E ok \in BOOLEAN :
       /\ getConn(ok)
       /\ IF ok
          THEN /\ err' = "nil"
               /\ deferred' = Append(deferred, "rc")
               /\ pc' = "p_token"
               /\ UNCHANGED <<retErr, failed, respLog>>
          ELSE /\ err' = "dial"
               /\ failed' = Append(failed, "dial")
               /\ WriteHeader(StatusInternalServerError)
               /\ Return("dial")
               /\ UNCHANGED deferred
  /\ UNCHANGED <<upLog, respHeader, proxyReqHeader, proxyResp, bodyCloses>>
  /\ UNCHANGED <<reqVars, cliVars, taskVars, envVars>>
  /\ UNCHANGED hvars

\* a token write whose failure is not acted on
P_WriteTokenIgnoringError ==
  /\ pc = "p_token"
  /\ \E ok \in BOOLEAN :
       /\ upLog' = Append(upLog, WriteRec("token", ParseAddr(targetHostOf(reqHost)), ok))
       /\ err' = IF ok THEN "nil" ELSE "token"
       /\ failed' = IF ok THEN failed ELSE Append(failed, "token")
       /\ pc' = "p_newReq"
       /\ UNCHANGED retErr
  /\ UNCHANGED <<deferred, dials, rc, rcCloses>>
  /\ UNCHANGED <<reqVars, respVars, cliVars, taskVars, envVars>>
  /\ UNCHANGED hvars

\* tgt := socks.ParseAddr(targetHost); rc.Write(tgt); on failure return err
P_WriteToken ==
  /\ pc = "p_token"
  /\ \E ok \in BOOLEAN :
       /\ upLog' = Append(upLog, WriteRec("token", ParseAddr(targetHostOf(reqHost)), ok))
       /\ IF ok
          THEN /\ err' = "nil"
               /\ pc' = "p_newReq"
               /\ UNCHANGED <<retErr, failed>>
          ELSE /\ err' = "token"
               /\ failed' = Append(failed, "token")
               /\ Return("token")
  /\ UNCHANGED <<deferred, dials, rc, rcCloses>>
  /\ UNCHANGED <<reqVars, respVars, cliVars, taskVars, envVars>>
  /\ UNCHANGED hvars

\* proxyReq, err := http.NewRequest(...); on failure WriteHeader(500) and
\* return err; copyHeaders(proxyReq.Header, req.Header); the User-Agent
P_NewRequest ==
  /\ pc = "p_newReq"
  /\ \E ok \in BOOLEAN :
       IF ok
       THEN /\ err' = "nil"
            /\ \E order \in Orders(DOMAIN reqHeader) :
                 LET h == copyHeaders(EmptyHeader, reqHeader, order) IN
                 proxyReqHeader' =
                    IF UserAgent # <<>>
                    THEN HeaderAdd(h, UserAgentHeader, UserAgent)
                    ELSE h
            /\ pc' = "p_writeReq"
            /\ UNCHANGED <<retErr, failed, respLog>>
       ELSE /\ err' = "newReq"
            /\ failed' = Append(failed, "newReq")
            /\ WriteHeader(StatusInternalServerError)
            /\ Return("newReq")
            /\ UNCHANGED proxyReqHeader
  /\ UNCHANGED <<deferred, respHeader, proxyResp, bodyCloses>>
  /\ UNCHANGED <<reqVars, upVars, cliVars, taskVars, envVars>>
  /\ UNCHANGED hvars

\* proxyReq.Write(rc); on failure WriteHeader(500) and return err
P_WriteRequest ==
  /\ pc = "p_writeReq"
  /\ \E ok \in BOOLEAN :
       /\ upLog' = Append(upLog, WriteRec("request", proxyReqHeader, ok))
       /\ IF ok
          THEN /\ err' = "nil"
               /\ pc' = "p_readResp"
               /\ UNCHANGED <<retErr, failed, respLog>>
          ELSE /\ err' = "writeReq"
               /\ failed' = Append(failed, "writeReq")
               /\ WriteHeader(StatusInternalServerError)
               /\ Return("writeReq")
  /\ UNCHANGED <<deferred, dials, rc, rcCloses>>
  /\ UNCHANGED <<respHeader, proxyReqHeader, proxyResp, bodyCloses>>
  /\ UNCHANGED <<reqVars, cliVars, taskVars, envVars>>
  /\ UNCHANGED hvars

\* proxyResp, err := http.ReadResponse(...); on failure WriteHeader(500) and
\* return err
P_ReadResponse ==
  /\ pc = "p_readResp"
  /\ \E ok \in BOOLEAN :
       IF ok
       THEN /\ err' = "nil"
            /\ \E code \in StatusInputs, h \in HeaderInputs :
                 proxyResp' = [StatusCode |-> code, Header |-> h]
            /\ pc' = "p_writeHeader"
            /\ UNCHANGED <<retErr, failed, respLog>>
       ELSE /\ err' = "readResp"
            /\ failed' = Append(failed, "readResp")
            /\ WriteHeader(StatusInternalServerError)
            /\ Return("readResp")
            /\ UNCHANGED proxyResp
  /\ UNCHANGED <<deferred, respHeader, proxyReqHeader, bodyCloses>>
  /\ UNCHANGED <<reqVars, upVars, cliVars, taskVars, envVars>>
  /\ UNCHANGED hvars

\* copyHeaders(resp.Header(), proxyResp.Header);
\* resp.WriteHeader(proxyResp.StatusCode)
P_WriteHeader ==
  /\ pc = "p_writeHeader"
  /\ \E order \in Orders(DOMAIN proxyResp.Header) :
       respHeader' = copyHeaders(respHeader, proxyResp.Header, order)
  /\ WriteHeader(proxyResp.StatusCode)
  /\ pc' = "p_copyBody"
  /\ UNCHANGED <<err, retErr, failed, deferred>>
  /\ UNCHANGED <<proxyReqHeader, proxyResp, bodyCloses>>
  /\ UNCHANGED <<reqVars, upVars, cliVars, taskVars, envVars>>
  /\ UNCHANGED hvars

\* a body copy that leaves the response body open when it fails
P_CopyBodyNoCloseOnError ==
  /\ pc = "p_copyBody"
  /\ \E ok \in BOOLEAN :
       /\ err' = IF ok THEN "nil" ELSE "copyBody"
       /\ failed' = IF ok THEN failed ELSE Append(failed, "copyBody")
       /\ Return(IF ok THEN "nil" ELSE "copyBody")
  /\ respLog' = Append(respLog, RespCall("Write", 0))
  /\ bodyCloses' = [bodyCloses EXCEPT !.resp = IF err' = "nil" THEN @ + 1 ELSE @]
  /\ UNCHANGED <<deferred, respHeader, proxyReqHeader, proxyResp>>
  /\ UNCHANGED <<reqVars, upVars, cliVars, taskVars, envVars>>
  /\ UNCHANGED hvars

\* _, err = io.Copy(resp, proxyResp.Body); CloseLogged(proxyResp.Body);
\* return err
P_CopyBody ==
  /\ pc = "p_copyBody"
  /\ \E ok \in BOOLEAN :
       /\ err' = IF ok THEN "nil" ELSE "copyBody"
       /\ failed' = IF ok THEN failed ELSE Append(failed, "copyBody")
       /\ Return(IF ok THEN "nil" ELSE "copyBody")
  /\ respLog' = Append(respLog, RespCall("Write", 0))
  /\ bodyCloses' = [bodyCloses EXCEPT !.resp = @ + 1]
  /\ UNCHANGED <<deferred, respHeader, proxyReqHeader, proxyResp>>
  /\ UNCHANGED <<reqVars, upVars, cliVars, taskVars, envVars>>
  /\ UNCHANGED hvars

(***************************************************************************)
(* handleConnect                                                           *)
(***************************************************************************)
\* defer CloseLogged(req.Body); rc, err := h.getConn(); on failure
\* WriteHeader(500) and return err; defer rc.Close()
C_GetConn ==
  /\ pc = "c_getConn"
  /\ \E ok \in BOOLEAN :
       /\ getConn(ok)
       /\ IF ok
          THEN /\ err' = "nil"
               /\ deferred' = deferred \o <<"req.Body", "rc">>
               /\ pc' = "c_token"
               /\ UNCHANGED <<retErr, failed, respLog>>
          ELSE /\ err' = "dial"
               /\ failed' = Append(failed, "dial")
               /\ deferred' = Append(deferred, "req.Body")
               /\ WriteHeader(StatusInternalServerError)
               /\ Return("dial")
  /\ UNCHANGED <<upLog, respHeader, proxyReqHeader, proxyResp, bodyCloses>>
  /\ UNCHANGED <<reqVars, cliVars, taskVars, envVars>>
  /\ UNCHANGED hvars

\* a token write whose failure is not acted on
C_WriteTokenIgnoringError ==
  /\ pc = "c_token"
  /\ \E ok \in BOOLEAN :
       /\ upLog' = Append(upLog, WriteRec("token", ParseAddr(reqHost), ok))
       /\ IF ok
          THEN /\ err' = "nil"
               /\ pc' = "c_hijack"
               /\ UNCHANGED <<retErr, failed>>
          ELSE /\ err' = "token"
               /\ failed' = Append(failed, "token")
               /\ pc' = "c_hijack"
               /\ UNCHANGED retErr
  /\ UNCHANGED <<deferred, dials, rc, rcCloses>>
  /\ UNCHANGED <<reqVars, respVars, cliVars, taskVars, envVars>>
  /\ UNCHANGED hvars

\* tgt := socks.ParseAddr(req.URL.Host); rc.Write(tgt); on failure return err
C_WriteToken ==
  /\ pc = "c_token"
  /\ \E ok \in BOOLEAN :
       /\ upLog' = Append(upLog, WriteRec("token", ParseAddr(reqHost), ok))
       /\ IF ok
          THEN /\ err' = "nil"
               /\ pc' = "c_hijack"
               /\ UNCHANGED <<retErr, failed>>
          ELSE /\ err' = "token"
               /\ failed' = Append(failed, "token")
               /\ Return("token")
  /\ UNCHANGED <<deferred, dials, rc, rcCloses>>
  /\ UNCHANGED <<reqVars, respVars, cliVars, taskVars, envVars>>
  /\ UNCHANGED hvars

\* a hijack that registers no close of the raw client connection
C_HijackWithoutDefer ==
  /\ pc = "c_hijack"
  /\ \E ok \in BOOLEAN :
       IF ok
       THEN /\ err' = "nil"
            /\ hijacked' = TRUE
            /\ clientConn' = "open"
            /\ \E n \in 0..Len(cliQ) :
                 /\ clientInput' = SubSeq(cliQ, 1, n)
                 /\ cliQ' = SubSeq(cliQ, n + 1, Len(cliQ))
            /\ pc' = "c_ack"
            /\ UNCHANGED <<retErr, failed, respLog, deferred>>
       ELSE /\ err' = "hijack"
            /\ failed' = Append(failed, "hijack")
            /\ WriteHeader(StatusInternalServerError)
            /\ Return("hijack")
            /\ UNCHANGED <<deferred, hijacked, clientConn, clientInput, cliQ>>
  /\ UNCHANGED <<ccCloses, cliLog>>
  /\ UNCHANGED <<respHeader, proxyReqHeader, proxyResp, bodyCloses>>
  /\ UNCHANGED <<cliSent, cliPeer, upQ, upSent, upPeer>>
  /\ UNCHANGED <<reqVars, upVars, taskVars>>
  /\ UNCHANGED hvars

\* clientInput, clientConn, err := HijackConnection(resp); on failure
\* WriteHeader(500) and return err; defer CloseLogged(clientConn).
\* clientInput holds the bytes the HTTP layer had already read from the socket.
C_Hijack ==
  /\ pc = "c_hijack"
  /\ \E ok \in BOOLEAN :
       IF ok
       THEN /\ err' = "nil"
            /\ hijacked' = TRUE
            /\ clientConn' = "open"
            /\ \E n \in 0..Len(cliQ) :
                 /\ clientInput' = SubSeq(cliQ, 1, n)
                 /\ cliQ' = SubSeq(cliQ, n + 1, Len(cliQ))
            /\ deferred' = Append(deferred, "clientConn")
            /\ pc' = "c_ack"
            /\ UNCHANGED <<retErr, failed, respLog>>
       ELSE /\ err' = "hijack"
            /\ failed' = Append(failed, "hijack")
            /\ WriteHeader(StatusInternalServerError)
            /\ Return("hijack")
            /\ UNCHANGED <<deferred, hijacked, clientConn, clientInput, cliQ>>
  /\ UNCHANGED <<ccCloses, cliLog>>
  /\ UNCHANGED <<respHeader, proxyReqHeader, proxyResp, bodyCloses>>
  /\ UNCHANGED <<cliSent, cliPeer, upQ, upSent, upPeer>>
  /\ UNCHANGED <<reqVars, upVars, taskVars>>
  /\ UNCHANGED hvars

\* an acknowledgment whose write failure is not acted on
C_AcknowledgeIgnoringError ==
  /\ pc = "c_ack"
  /\ \E ok \in BOOLEAN :
       /\ cliLog' = Append(cliLog, WriteRec("ack", AckBytes, ok))
       /\ err' = IF ok THEN "nil" ELSE "ack"
       /\ failed' = IF ok THEN failed ELSE Append(failed, "ack")
       /\ pc' = "c_relay"
       /\ UNCHANGED <<retErr, respLog>>
  /\ UNCHANGED <<deferred, hijacked, clientConn, ccCloses, clientInput>>
  /\ UNCHANGED <<respHeader, proxyReqHeader, proxyResp, bodyCloses>>
  /\ UNCHANGED <<reqVars, upVars, taskVars, envVars>>
  /\ UNCHANGED hvars

\* clientConn.Write("HTTP/1.0 200 Connection established\r\n\r\n"); on
\* failure resp.WriteHeader(500) and return err
C_Acknowledge ==
  /\ pc = "c_ack"
  /\ \E ok \in BOOLEAN :
       /\ cliLog' = Append(cliLog, WriteRec("ack", AckBytes, ok))
       /\ IF ok
          THEN /\ err' = "nil"
               /\ pc' = "c_relay"
               /\ UNCHANGED <<retErr, failed, respLog>>
          ELSE /\ err' = "ack"
               /\ failed' = Append(failed, "ack")
               /\ WriteHeader(StatusInternalServerError)
               /\ Return("ack")
  /\ UNCHANGED <<deferred, hijacked, clientConn, ccCloses, clientInput>>
  /\ UNCHANGED <<respHeader, proxyReqHeader, proxyResp, bodyCloses>>
  /\ UNCHANGED <<reqVars, upVars, taskVars, envVars>>
  /\ UNCHANGED hvars

\* wg.Add(2); go transfer(&wg, rc, clientInput); go transfer(&wg, clientConn, rc)
C_StartRelay ==
  /\ pc = "c_relay"
  /\ wg' = wg + 2
  /\ t1' = "run"
  /\ t2' = "run"
  /\ pc' = "c_wait"
  /\ UNCHANGED <<err, retErr, failed, deferred>>
  /\ UNCHANGED <<reqVars, upVars, respVars, cliVars, envVars>>
  /\ UNCHANGED hvars

\* a barrier that is passed as soon as one copy task has finished
C_WaitForFirst ==
  /\ pc = "c_wait"
  /\ wg <= 1
  /\ Return("nil")
  /\ UNCHANGED <<err, failed, deferred>>
  /\ UNCHANGED <<reqVars, upVars, respVars, cliVars, taskVars, envVars>>
  /\ UNCHANGED hvars

\* wg.Wait(); return nil
C_Wait ==
  /\ pc = "c_wait"
  /\ wg = 0
  /\ Return("nil")
  /\ UNCHANGED <<err, failed, deferred>>
  /\ UNCHANGED <<reqVars, upVars, respVars, cliVars, taskVars, envVars>>
  /\ UNCHANGED hvars

\* number of deferred calls registered for x
Deferred(x) == Cardinality({i \in 1..Len(deferred) : deferred[i] = x})

\* the handler returns: the deferred calls run, last registered first
Teardown ==
  /\ pc = "return"
  /\ pc' = "done"
  /\ ccCloses' = ccCloses + Deferred("clientConn")
  /\ clientConn' = IF Deferred("clientConn") > 0 THEN "closed" ELSE clientConn
  /\ rcCloses' = rcCloses + Deferred("rc")
  /\ rc' = IF Deferred("rc") > 0 THEN "closed" ELSE rc
  /\ bodyCloses' = [bodyCloses EXCEPT !.req = @ + Deferred("req.Body")]
  /\ deferred' = <<>>
  /\ UNCHANGED <<err, retErr, failed, dials, upLog>>
  /\ UNCHANGED <<respLog, respHeader, proxyReqHeader, proxyResp>>
  /\ UNCHANGED <<hijacked, cliLog, clientInput>>
  /\ UNCHANGED <<reqVars, taskVars, envVars>>
  /\ UNCHANGED hvars

(***************************************************************************)
(* transfer: io.Copy(dst, src) and wg.Done().  A read blocks while the     *)
(* source holds no byte and its peer is open; it ends the copy when the    *)
(* peer has closed or reset; a failed write ends the copy as well.         *)
(***************************************************************************)
\* a copy task that reads the client's socket and not the buffered reader
T1CopyFromConn ==
  /\ t1 = "run"
  /\ IF cliQ # <<>>
     THEN \E n \in 1..Len(cliQ), ok \in BOOLEAN :
               /\ upLog' = Append(upLog, WriteRec("relay", SubSeq(cliQ, 1, n), ok))
               /\ cliQ' = SubSeq(cliQ, n + 1, Len(cliQ))
               /\ t1' = IF ok THEN "run" ELSE "done"
               /\ wg' = IF ok THEN wg ELSE wg - 1
     ELSE /\ cliPeer # "open"
          /\ t1' = "done"
          /\ wg' = wg - 1
          /\ UNCHANGED <<upLog, cliQ>>
  /\ UNCHANGED <<dials, rc, rcCloses, t2>>
  /\ UNCHANGED <<hijacked, clientConn, ccCloses, cliLog, clientInput>>
  /\ UNCHANGED <<cliSent, cliPeer, upQ, upSent, upPeer>>
  /\ UNCHANGED <<reqVars, ctlVars, respVars>>
  /\ UNCHANGED hvars

\* transfer(&wg, rc, clientInput): clientInput serves its buffered bytes
\* first, then reads the client's socket
T1Copy ==
  /\ t1 = "run"
  /\ IF clientInput # <<>>
     THEN /\ \E n \in 1..Len(clientInput), ok \in BOOLEAN :
               /\ upLog' = Append(upLog, WriteRec("relay", SubSeq(clientInput, 1, n), ok))
               /\ clientInput' = SubSeq(clientInput, n + 1, Len(clientInput))
               /\ t1' = IF ok THEN "run" ELSE "done"
               /\ wg' = IF ok THEN wg ELSE wg - 1
          /\ UNCHANGED cliQ
     ELSE IF cliQ # <<>>
     THEN /\ \E n \in 1..Len(cliQ), ok \in BOOLEAN :
               /\ upLog' = Append(upLog, WriteRec("relay", SubSeq(cliQ, 1, n), ok))
               /\ cliQ' = SubSeq(cliQ, n + 1, Len(cliQ))
               /\ t1' = IF ok THEN "run" ELSE "done"
               /\ wg' = IF ok THEN wg ELSE wg - 1
          /\ UNCHANGED clientInput
     ELSE /\ cliPeer # "open"
          /\ t1' = "done"
          /\ wg' = wg - 1
          /\ UNCHANGED <<upLog, clientInput, cliQ>>
  /\ UNCHANGED <<dials, rc, rcCloses, t2>>
  /\ UNCHANGED <<hijacked, clientConn, ccCloses, cliLog>>
  /\ UNCHANGED <<cliSent, cliPeer, upQ, upSent, upPeer>>
  /\ UNCHANGED <<reqVars, ctlVars, respVars>>
  /\ UNCHANGED hvars

\* transfer(&wg, clientConn, rc)
T2Copy ==
  /\ t2 = "run"
  /\ IF upQ # <<>>
     THEN /\ \E n \in 1..Len(upQ), ok \in BOOLEAN :
               /\ cliLog' = Append(cliLog, WriteRec("relay", SubSeq(upQ, 1, n), ok))
               /\ upQ' = SubSeq(upQ, n + 1, Len(upQ))
               /\ t2' = IF ok THEN "run" ELSE "done"
               /\ wg' = IF ok THEN wg ELSE wg - 1
     ELSE /\ upPeer # "open"
          /\ t2' = "done"
          /\ wg' = wg - 1
          /\ UNCHANGED <<cliLog, upQ>>
  /\ UNCHANGED <<hijacked, clientConn, ccCloses, clientInput, t1>>
  /\ UNCHANGED <<cliQ, cliSent, cliPeer, upSent, upPeer>>
  /\ UNCHANGED <<reqVars, ctlVars, upVars, respVars>>
  /\ UNCHANGED hvars

(***************************************************************************)
(* The peers of a tunnel                                                   *)
(***************************************************************************)
TunnelLive == method = "CONNECT" /\ pc \notin {"idle", "done"}

\* the client sends its next byte after the CONNECT head
ClientSend ==
  /\ TunnelLive
  /\ cliPeer = "open"
  /\ cliSent < MaxBytes
  /\ cliSent' = cliSent + 1
  /\ cliQ' = Append(cliQ, cliSent + 1)
  /\ UNCHANGED <<cliPeer, upQ, upSent, upPeer>>
  /\ UNCHANGED <<reqVars, ctlVars, upVars, respVars, cliVars, taskVars>>
  /\ UNCHANGED hvars

\* the client closes its end, or its connection is reset
ClientEnd ==
  /\ TunnelLive
  /\ cliPeer = "open"
  /\ cliPeer' \in {"closed", "reset"}
  /\ UNCHANGED <<cliQ, cliSent, upQ, upSent, upPeer>>
  /\ UNCHANGED <<reqVars, ctlVars, upVars, respVars, cliVars, taskVars>>
  /\ UNCHANGED hvars

\* the upstream sends its next byte
UpstreamSend ==
  /\ TunnelLive
  /\ rc = "open"
  /\ upPeer = "open"
  /\ upSent < MaxBytes
  /\ upSent' = upSent + 1
  /\ upQ' = Append(upQ, upSent + 1)
  /\ UNCHANGED <<cliQ, cliSent, cliPeer, upPeer>>
  /\ UNCHANGED <<reqVars, ctlVars, upVars, respVars, cliVars, taskVars>>
  /\ UNCHANGED hvars

\* the upstream closes its end, or its connection is reset
UpstreamEnd ==
  /\ TunnelLive
  /\ rc = "open"
  /\ upPeer = "open"
  /\ upPeer' \in {"closed", "reset"}
  /\ UNCHANGED <<cliQ, cliSent, cliPeer, upQ, upSent>>
  /\ UNCHANGED <<reqVars, ctlVars, upVars, respVars, cliVars, taskVars>>
  /\ UNCHANGED hvars

(***************************************************************************)
(* Specifications                                                          *)
(***************************************************************************)
\* the handler at rest, as localHTTP constructs it (no user agent set)
HandlerIdle == SpecInit /\ UserAgent = <<>>

HdrNext == ReceiveHeaderLine \/ CopyHeadersRequest \/ CopyHeadersResponse

\* the header sanitizer applied to header blocks
InitHdr == HdrInit /\ HandlerIdle

SpecHdr == InitHdr /\ [][HdrNext]_vars

HdrNextCalls ==
  ReceiveHeaderLine \/ CopyHeadersRequest \/ CopyHeadersResponse \/ NextCall

\* the header sanitizer called again and again
SpecHdrCalls == InitHdr /\ [][HdrNextCalls]_vars

Init == SpecInit /\ HdrInit

Next ==
  \/ ServeHTTP
  \/ P_ReadBody \/ P_GetConn \/ P_WriteToken \/ P_NewRequest
  \/ P_WriteRequest \/ P_ReadResponse \/ P_WriteHeader \/ P_CopyBody
  \/ C_GetConn \/ C_WriteToken \/ C_Hijack \/ C_Acknowledge
  \/ C_StartRelay \/ C_Wait
  \/ Teardown
  \/ T1Copy \/ T2Copy
  \/ ClientSend \/ ClientEnd \/ UpstreamSend \/ UpstreamEnd

\* one session of the handler
Spec == Init /\ [][Next]_vars

\* the steps of the handler's goroutine
HandlerStep ==
  \/ ServeHTTP
  \/ P_ReadBody \/ P_GetConn \/ P_WriteToken \/ P_NewRequest
  \/ P_WriteRequest \/ P_ReadResponse \/ P_WriteHeader \/ P_CopyBody
  \/ C_GetConn \/ C_WriteToken \/ C_Hijack \/ C_Acknowledge
  \/ C_StartRelay \/ C_Wait
  \/ Teardown

\* the Go scheduler runs every goroutine that can take a step; the peers of
\* the tunnel are under no obligation to send or to close
FairSpec ==
  Spec /\ WF_vars(HandlerStep) /\ WF_vars(T1Copy) /\ WF_vars(T2Copy)

(***************************************************************************)
(* Properties of the header sanitizer (checked under SpecHdr)              *)
(***************************************************************************)
Range(f) == {f[x] : x \in DOMAIN f}

\* two header names are the same HTTP header name
EqualFold(a, b) ==
  /\ Len(a) = Len(b)
  /\ \A i \in 1..Len(a) : ToLower(a[i]) = ToLower(b[i])

\* the token grammar of HTTP: ^[A-Za-z0-9!#$%&'*+\-.^_`|~]+$
RFCTokenChars ==
  UpperSet \cup LowerSet \cup Digits \cup
  {"!", "#", "$", "%", "&", "'", "*", "+", "-", ".", "^", "_", "BQUOTE", "|", "~"}
IsToken(t) == t # <<>> /\ \A i \in 1..Len(t) : t[i] \in RFCTokenChars

\* the trimmed comma-separated parts of a Connection value
TrimmedParts(v) ==
  LET parts == SplitComma(v) IN [i \in 1..Len(parts) |-> TrimSpace(parts[i])]

ConnectionValuesOf(h) == Range(HeaderGet(h, connectionHeader))

\* C1: after copyHeaders on an empty destination, the destination holds no
\* header whose name is, as an HTTP header name, one of the static
\* hop-by-hop set (Connection, Keep-Alive, Proxy-Authorization,
\* Proxy-Authentication, TE, Trailer, Transfer-Encoding, Upgrade).
C1_StaticNeverCopied ==
  (hpc = "copied" /\ dst0 = EmptyHeader) =>
     \A k \in DOMAIN dst : \A h \in hopByHopHeaders : ~EqualFold(k, h)

\* C2: after copyHeaders on an empty destination, the destination holds no
\* Connection header and no header whose name is, as an HTTP header name, a
\* valid token listed in a Connection value of the source.
C2_ListedNeverCopied ==
  (hpc = "copied" /\ dst0 = EmptyHeader) =>
     \A k \in DOMAIN dst :
        /\ ~EqualFold(k, connectionHeader)
        /\ \A v \in ConnectionValuesOf(src) :
             \A t \in Range(TrimmedParts(v)) : IsToken(t) => ~EqualFold(k, t)

\* C3: of the trimmed comma-separated parts of every Connection value, a part
\* that is empty or holds a character outside the token grammar is not in the
\* drop set and is among the bad tokens returned; every valid part is in the
\* drop set; and the copy is completed: every header of the source that
\* is in neither set has reached the destination.
C3_BadTokensExcluded ==
  hpc = "copied" =>
     /\ \A v \in ConnectionValuesOf(src) :
          \A t \in Range(TrimmedParts(v)) :
             /\ IsToken(t) => t \in dynDropHdrs
             /\ ~IsToken(t) => (t \notin dynDropHdrs /\ t \in Range(badTokens))
     /\ \A k \in DOMAIN src :
          (k \notin hopByHopHeaders /\ k \notin dynDropHdrs) => k \in DOMAIN dst

\* a Connection value with a bad part followed by a valid one, whose header
\* was in the source and was dropped
C3_Witness ==
  /\ hpc = "copied"
  /\ \E v \in ConnectionValuesOf(src) :
       LET parts == TrimmedParts(v) IN
       \E i, j \in 1..Len(parts) :
          /\ i < j
          /\ ~IsToken(parts[i])
          /\ IsToken(parts[j])
          /\ parts[j] \in DOMAIN src
          /\ parts[j] \notin DOMAIN dst

\* the names the second loop of copyHeaders skips
Dropped(k) == k \in hopByHopHeaders \/ k \in dynDropHdrs

\* C4: after copyHeaders(dst, src), under every name the destination holds its
\* previous values followed by the values of the source under that name in
\* their order, or its previous values alone when the name is in the static
\* map or in the drop set of the call; nothing else is added.
C4_AppendsInOrder ==
  hpc = "copied" =>
     /\ DOMAIN dst \subseteq (DOMAIN dst0 \cup DOMAIN src)
     /\ \A k \in DOMAIN dst0 \cup DOMAIN src :
          HeaderGet(dst, k) =
             IF k \in DOMAIN src /\ ~Dropped(k)
             THEN HeaderGet(dst0, k) \o src[k]
             ELSE HeaderGet(dst0, k)

\* a destination that held a value, a source with two values under the same
\* name and with a dropped name
C4_Witness ==
  /\ hpc = "copied"
  /\ HeaderGet(dst0, XA) = <<<<"0">>>>
  /\ HeaderGet(src, XA) = <<V2, V1>>
  /\ HeaderGet(dst, XA) = <<<<"0">>, V2, V1>>
  /\ \E k \in DOMAIN src : Dropped(k)

(***************************************************************************)
(* Properties of the handler (checked under Spec, C7 under FairSpec)       *)
(***************************************************************************)
\* number of entries of a log that satisfy Test
CountIn(log, Test(_)) == Cardinality({i \in 1..Len(log) : Test(log[i])})

IsTokenWrite(r) == r.k = "token"
IsAckWrite(r) == r.k = "ack"
\* a status line that reached the client through the response object
IsStatusLine(r) == r.op = "WriteHeader" /\ ~r.hijacked
IsStatus500(r) == IsStatusLine(r) /\ r.code = StatusInternalServerError

\* C5: on the upstream connection of a session, plain or tunnel, the
\* Destination Token is the first write and the only token write; nothing
\* else (request bytes, relayed bytes) is written unless that write has
\* succeeded; nothing is written without a connection; and a session that had
\* a connection has written the token once when it ends.
C5_TokenFirstOnce ==
  /\ \A i \in 1..Len(upLog) : IsTokenWrite(upLog[i]) <=> i = 1
  /\ Len(upLog) >= 2 => upLog[1].ok
  /\ upLog # <<>> => (rc # "none" /\ dials = 1)
  /\ (pc = "done" /\ rc # "none") => CountIn(upLog, IsTokenWrite) = 1

\* a finished session that wrote something after its token
C5_Witness ==
  /\ pc = "done"
  /\ Len(upLog) >= 2
  /\ IsTokenWrite(upLog[1])
  /\ upLog[2].k \in {"request", "relay"}

\* C6: on the tunnel path the first write on the raw client connection is
\* the acknowledgment, byte for byte, made once and only after dial, token
\* write and hijack have succeeded; a relayed byte is written to the client
\* only after the acknowledgment write has succeeded, and by then nothing has
\* been sent to the client through the response object.
C6_AckFirstOnce ==
  method = "CONNECT" =>
    /\ \A i \in 1..Len(cliLog) : IsAckWrite(cliLog[i]) <=> i = 1
    /\ cliLog # <<>> =>
         /\ cliLog[1].d = "HTTP/1.0 200 Connection established\r\n\r\n"
         /\ rc # "none"
         /\ upLog # <<>> /\ IsTokenWrite(upLog[1]) /\ upLog[1].ok
         /\ hijacked
         /\ CountIn(respLog, IsStatusLine) = 0
    /\ Len(cliLog) >= 2 => (cliLog[1].ok /\ respLog = <<>>)

\* the acknowledgment followed by a relayed byte
C6_Witness ==
  /\ method = "CONNECT"
  /\ Len(cliLog) >= 2
  /\ IsAckWrite(cliLog[1])
  /\ cliLog[1].ok
  /\ cliLog[2].k = "relay"

\* C7: once the relay runs and one peer has reached end of stream or failed,
\* the relay terminates: the handler passes the barrier and tears down.
C7_RelayTerminates ==
  (pc = "c_wait" /\ (upPeer # "open" \/ cliPeer # "open")) ~> (pc = "done")

\* C8: a finished session has written exactly one status line (through
\* WriteHeader) or acknowledgment line to the client, and no body write or
\* relayed byte precedes it.
C8_ExactlyOneStatusOrAck ==
  /\ pc = "done" =>
       CountIn(respLog, IsStatusLine) + CountIn(cliLog, IsAckWrite) = 1
  /\ \A i \in 1..Len(respLog) :
       respLog[i].op = "Write" => \E j \in 1..(i - 1) : IsStatusLine(respLog[j])
  /\ \A i \in 1..Len(cliLog) :
       cliLog[i].k = "relay" => \E j \in 1..(i - 1) : IsAckWrite(cliLog[j])

\* the steps of processRequest that precede the status line
PreStatusSteps == {"readBody", "dial", "token", "newReq", "writeReq", "readResp"}

\* C9: on the plain path, when a step before the status line has failed, a
\* 500 status has been written to the client by the time the handler has
\* finished, and that error is the one returned.
C9_EarlyErrorGives500 ==
  (method = "GET" /\ pc = "done" /\ failed # <<>> /\ failed[1] \in PreStatusSteps) =>
     /\ CountIn(respLog, IsStatus500) >= 1
     /\ retErr = failed[1]

\* C10: on the tunnel path neither connection is ever closed twice, and once
\* the client connection has been hijacked the handler has, when it has
\* returned, closed the raw client connection and the upstream connection
\* once each.
C10_BothClosedOnce ==
  method = "CONNECT" =>
    /\ ccCloses <= 1
    /\ rcCloses <= 1
    /\ (pc = "done" /\ hijacked) =>
         /\ ccCloses = 1 /\ clientConn = "closed"
         /\ rcCloses = 1 /\ rc = "closed"

\* a tunnel whose relay ran to completion and was torn down
C10_Witness ==
  /\ method = "CONNECT"
  /\ pc = "done"
  /\ hijacked
  /\ t1 = "done" /\ t2 = "done"
  /\ ccCloses = 1 /\ rcCloses = 1

\* the Host value carries a port: a colon that no closing bracket follows
HasExplicitPort(host) ==
  \E i \in 1..Len(host) :
     /\ host[i] = ":"
     /\ \A j \in i..Len(host) : host[j] # "]"

\* C11: on the plain path the string handed to the destination encoder is the
\* Host value followed by ":80" when the Host value carries no explicit port,
\* and the Host value unchanged when it carries one.
C11_DefaultPort80 ==
  (method = "GET" /\ upLog # <<>>) =>
     upLog[1].d = ParseAddr(IF HasExplicitPort(reqHost)
                            THEN reqHost
                            ELSE reqHost \o <<":", "8", "0">>)

\* the request as it was written to the upstream connection
RequestsWritten == {i \in 1..Len(upLog) : upLog[i].k = "request"}

\* C12: on the plain path the request written upstream carries, when a user
\* agent is configured, a User-Agent header whose only value is the configured
\* string, and otherwise the User-Agent values of the client request.
C12_UserAgentOverride ==
  method = "GET" =>
    \A i \in RequestsWritten :
       HeaderGet(upLog[i].d, UserAgentHeader) =
          IF UserAgent # <<>> THEN <<UserAgent>>
          ELSE HeaderGet(reqHeader, UserAgentHeader)

\* copy tasks that have been started and have not finished
RunningTasks == {x \in {"t1", "t2"} : (IF x = "t1" THEN t1 ELSE t2) = "run"}

\* C13: in every interleaving of the two copy tasks the barrier counts the
\* tasks that have not signalled yet (each task signals once, whether its copy
\* ended by end of stream or by an error), the handler is past the barrier only
\* when both have signalled, and no connection is closed while a task runs.
C13_BarrierBeforeClose ==
  method = "CONNECT" =>
    /\ wg = Cardinality(RunningTasks)
    /\ (pc \in {"return", "done"} /\ t1 # "none") => (t1 = "done" /\ t2 = "done")
    /\ (rc = "closed" \/ clientConn = "closed") => RunningTasks = {}

\* a torn-down tunnel one of whose copies ended in a write error
C13_Witness ==
  /\ method = "CONNECT"
  /\ pc = "done"
  /\ t1 = "done" /\ t2 = "done"
  /\ rc = "closed" /\ clientConn = "closed"
  /\ \/ \E i \in 1..Len(upLog) : upLog[i].k = "relay" /\ ~upLog[i].ok
     \/ \E i \in 1..Len(cliLog) : cliLog[i].k = "relay" /\ ~cliLog[i].ok

\* the phase of handleConnect a position belongs to: 1 Dial, 2 SendToken,
\* 3 HijackClient, 4 Acknowledge, 5 Relay, 6 Teardown
PhaseOf(p) ==
  CASE p = "c_getConn" -> 1
    [] p = "c_token" -> 2
    [] p = "c_hijack" -> 3
    [] p = "c_ack" -> 4
    [] p \in {"c_relay", "c_wait"} -> 5
    [] p \in {"return", "done"} -> 6
    [] OTHER -> 0

\* one step of the tunnel handler respects the order of the phases
PhaseStep ==
  (method' = "CONNECT" /\ pc' # pc) =>
     \/ PhaseOf(pc') = PhaseOf(pc) + 1 /\ failed' = failed
     \/ PhaseOf(pc') = PhaseOf(pc) /\ failed' = failed
     \/ /\ PhaseOf(pc) \in 1..4
        /\ pc' = "return"
        /\ Len(failed') = Len(failed) + 1
        /\ retErr' = failed'[Len(failed')]
        /\ t1 = "none" /\ t2 = "none"

\* C14: the tunnel handler goes through Dial, SendToken, HijackClient,
\* Acknowledge, Relay, Teardown in that order, a phase starting only after the
\* previous one succeeded; a failure in one of the first four ends the session
\* with that error returned and the copy tasks never started.
C14_PhasesInOrder ==
  /\ [][PhaseStep]_vars
  /\ [](method = "CONNECT" /\ failed # <<>> =>
          /\ pc \in {"return", "done"}
          /\ retErr = failed[1]
          /\ t1 = "none" /\ t2 = "none" /\ wg = 0)

\* a tunnel that went through all phases
C14_Witness ==
  /\ method = "CONNECT"
  /\ pc = "done"
  /\ failed = <<>>
  /\ retErr = "nil"
  /\ t1 = "done"
  /\ Len(cliLog) >= 1

\* C15: on the tunnel path no operation of the response object is called
\* once the client connection has been hijacked.
C15_NoResponseUseAfterHijack ==
  method = "CONNECT" => \A i \in 1..Len(respLog) : ~respLog[i].hijacked

\* C16: a session dials at most once; when the dial fails the handler writes
\* a 500 status, returns the dial error, and neither writes a token nor
\* hijacks the client connection nor writes the acknowledgment.
C16_DialOnceNoRetry ==
  /\ dials <= 1
  /\ "dial" \in Range(failed) =>
       /\ pc \in {"return", "done"}
       /\ retErr = "dial"
       /\ Len(respLog) = 1 /\ IsStatus500(respLog[1])
       /\ rc = "none"
       /\ upLog = <<>>
       /\ ~hijacked
       /\ cliLog = <<>>

\* a tunnel session ended by a failed dial
C16_Witness ==
  /\ method = "CONNECT"
  /\ pc = "done"
  /\ dials = 1
  /\ failed = <<"dial">>

\* C17: on the plain path an error of the body copy leaves the client with
\* the one status line of the upstream's code and no 500, the copy error is
\* returned, and the upstream response body is closed once after the copy,
\* failed or not.
C17_CopyErrorAfterStatus ==
  method = "GET" =>
    /\ "copyBody" \in Range(failed) =>
         /\ retErr = "copyBody"
         /\ CountIn(respLog, IsStatusLine) = 1
         /\ CountIn(respLog, IsStatus500) = 0
         /\ respLog[1].code = proxyResp.StatusCode
    /\ bodyCloses.resp = CountIn(respLog, LAMBDA r : r.op = "Write")
    /\ bodyCloses.resp <= 1

\* a plain session whose body copy failed
C17_Witness ==
  /\ method = "GET"
  /\ pc = "done"
  /\ failed # <<>>
  /\ failed[Len(failed)] = "copyBody"
  /\ bodyCloses.resp = 1

\* the relayed bytes of a log, in the order of the writes
RECURSIVE RelayData(_)
RelayData(log) ==
  IF log = <<>> THEN <<>>
  ELSE (IF Head(log).k = "relay" THEN Head(log).d ELSE <<>>) \o RelayData(Tail(log))

\* the first n bytes a peer sends
Stream(n) == [i \in 1..n |-> i]

\* C18: on the tunnel path the bytes written upstream after the token,
\* followed by the bytes buffered and the bytes not yet read, are the client's
\* byte stream (so what has been written is a prefix of it, the buffered bytes
\* first, nothing lost, duplicated or reordered); the same holds for the bytes
\* written to the client after the acknowledgment and the upstream's stream.
C18_StreamsPreserved ==
  method = "CONNECT" =>
    /\ RelayData(upLog) \o clientInput \o cliQ = Stream(cliSent)
    /\ RelayData(cliLog) \o upQ = Stream(upSent)
    /\ \A i \in 2..Len(upLog) : upLog[i].k = "relay"
    /\ \A i \in 2..Len(cliLog) : cliLog[i].k = "relay"

\* a byte served from the buffered reader has been relayed upstream while
\* another is still buffered, and an upstream byte has reached the client
C18_Witness ==
  /\ method = "CONNECT"
  /\ clientInput # <<>>
  /\ RelayData(upLog) # <<>>
  /\ RelayData(cliLog) # <<>>

\* C20: on the plain path the upstream connection is used only after this
\* session dialed it, is not closed before the handler returns, and has been
\* closed exactly once when the handler has returned, on every exit path.
C20_PlainUpstreamClosedOnce ==
  method = "GET" =>
    /\ rcCloses <= 1
    /\ upLog # <<>> => (dials = 1 /\ rc # "none")
    /\ pc # "done" => (rcCloses = 0 /\ rc # "closed")
    /\ (pc = "done" /\ rc # "none") => (rcCloses = 1 /\ rc = "closed")

\* a plain session that succeeded and closed its upstream connection
C20_Witness ==
  /\ method = "GET"
  /\ pc = "done"
  /\ retErr = "nil"
  /\ rcCloses = 1

\* a is an initial part of b
IsPrefix(a, b) == Len(a) <= Len(b) /\ SubSeq(b, 1, Len(a)) = a

\* the valid tokens the Connection values of a header collection list
ListedTokens(h) ==
  {t \in UNION {Range(TrimmedParts(v)) : v \in ConnectionValuesOf(h)} : IsToken(t)}

\* C19: a call of copyHeaders leaves the source as it was, removes or alters
\* nothing the destination held, and works with a drop set of its own: the
\* set holds only tokens listed by this call's source, and a header that an
\* earlier call dropped is copied when this call's source does not list it.
C19_OnlyDstAndOwnDropSet ==
  /\ [][(hpc = "recv" /\ hpc' = "copied") => src' = src]_vars
  /\ [](hpc = "copied" =>
          /\ dynDropHdrs \subseteq ListedTokens(src)
          /\ \A k \in DOMAIN dst0 :
               k \in DOMAIN dst /\ IsPrefix(dst0[k], dst[k])
          /\ \A k \in DOMAIN src :
               (k \notin hopByHopHeaders /\ k \notin ListedTokens(src))
                  => k \in DOMAIN dst)

\* a header the previous call dropped is copied by this call, into a
\* destination that held a value before
C19_Witness ==
  /\ hpc = "copied"
  /\ XA \in prevDrop
  /\ XA \in DOMAIN src
  /\ XA \notin dynDropHdrs
  /\ dst0 # EmptyHeader
  /\ Len(HeaderGet(dst, XA)) >= 2

====
